---- MODULE Spec2Model ----
(***************************************************************************)
(* A model of src/app.py, the Streamlit bug-classifier script.  One run of *)
(* the script body for one uploaded file is a request; the process-wide    *)
(* st.cache_resource cache of load_model() is the only state that outlives *)
(* a request.  The steps of a request are the script's statements in       *)
(* order, with the try/except of lines 21-104 around them.                 *)
(***************************************************************************)
EXTENDS Integers, Sequences, FiniteSets, TLC

\* ------------------------------------------------------------------ bounds
MaxRows == 2
MaxLoads == 2

\* ------------------------------------------------------------------ cells
\* A cell of a table (and a column label): a string, an integer, a float
\* (n holds hundredths: F(450) is 4.5) or the missing value NaN.
S(x) == [t |-> "str", s |-> x, n |-> 0]
I(k) == [t |-> "int", s |-> "", n |-> k]
F(k) == [t |-> "float", s |-> "", n |-> k]
NaN == [t |-> "nan", s |-> "", n |-> 0]

IsNull(c) == c.t = "nan"

\* str(x) of a float with at most two decimals: 4.5, 5.0, 0.87.
StrOfFloat(k) ==
    LET a == IF k < 0 THEN 0 - k ELSE k
        frac == a % 100
    IN (IF k < 0 THEN "-" ELSE "") \o ToString(a \div 100) \o "." \o
       (IF frac % 10 = 0 THEN ToString(frac \div 10)
        ELSE IF frac < 10 THEN "0" \o ToString(frac)
        ELSE ToString(frac))

\* str(x) of a Python / numpy scalar; astype(str) of a cell.
StrOf(c) ==
    CASE c.t = "str" -> c.s
      [] c.t = "int" -> ToString(c.n)
      [] c.t = "float" -> StrOfFloat(c.n)
      [] OTHER -> "nan"

\* int(x): truncation toward zero.
IntOf(c) ==
    CASE c.t = "int" -> c.n
      [] c.t = "float" -> IF c.n < 0 THEN 0 - ((0 - c.n) \div 100) ELSE c.n \div 100
      [] OTHER -> 0

\* str.strip() on the strings that occur as headers in the uploads below.
strip(x) ==
    CASE x = " Details " -> "Details"
      [] x = "bug_type " -> "bug_type"
      [] x = " Logical_Issue" -> "Logical_Issue"
      [] x = "S.No " -> "S.No"
      [] OTHER -> x

\* str.lower() on the strings that occur as Logical_Issue values below.
lower(x) ==
    CASE x = "Yes" -> "yes"
      [] x = "YES" -> "yes"
      [] x = "No" -> "no"
      [] OTHER -> x

\* ------------------------------------------------------------------ tables
\* A DataFrame: column labels, and rows each carrying its index label.
EmptyFrame == [columns |-> << >>, rows |-> << >>]

Range(f) == {f[i] : i \in DOMAIN f}

HasCol(df, name) == S(name) \in Range(df.columns)

ColPos(df, name) ==
    CHOOSE i \in DOMAIN df.columns :
        /\ df.columns[i] = S(name)
        /\ \A j \in DOMAIN df.columns : df.columns[j] = S(name) => i <= j

\* df[name] as the sequence of its values in row order.
Column(df, name) == [r \in DOMAIN df.rows |-> df.rows[r].c[ColPos(df, name)]]

\* df[name] = vals (positional): replaces the column, or appends a new one.
SetColumn(df, name, vals) ==
    IF HasCol(df, name)
    THEN [df EXCEPT !.rows =
            [r \in DOMAIN df.rows |->
                [df.rows[r] EXCEPT !.c[ColPos(df, name)] = vals[r]]]]
    ELSE [columns |-> Append(df.columns, S(name)),
          rows |-> [r \in DOMAIN df.rows |->
                      [df.rows[r] EXCEPT !.c = Append(@, vals[r])]]]

\* df.rename(columns={old: new}).
Rename(df, old, new) ==
    [df EXCEPT !.columns =
        [i \in DOMAIN df.columns |->
            IF df.columns[i] = S(old) THEN S(new) ELSE df.columns[i]]]

\* dropna that drops nothing.
dropna_keeps_all(df, name) == df

\* df.dropna(subset=[name]): the rows whose cell is not missing, index kept.
dropna(df, name) ==
    [df EXCEPT !.rows = SelectSeq(df.rows, LAMBDA r : ~IsNull(r.c[ColPos(df, name)]))]

\* series.value_counts(): the count of every value that occurs, missing
\* values left out (the order of the entries is not modelled).
value_counts(vals) ==
    [v \in {vals[i] : i \in {j \in DOMAIN vals : ~IsNull(vals[j])}} |->
        Cardinality({i \in DOMAIN vals : vals[i] = v})]

\* The positions of the columns labelled name, left to right.
Positions(df, name) ==
    SelectSeq([i \in DOMAIN df.columns |-> i], LAMBDA p : df.columns[p] = S(name))

RECURSIVE AllPositions(_, _)
AllPositions(df, names) ==
    IF names = << >> THEN << >>
    ELSE Positions(df, Head(names)) \o AllPositions(df, Tail(names))

\* df[names].reset_index(drop=True): every column bearing one of the labels,
\* in the order of names, the rows renumbered from 0.
Select(df, names) ==
    LET pos == AllPositions(df, names)
    IN [columns |-> [k \in DOMAIN pos |-> df.columns[pos[k]]],
        rows |-> [r \in DOMAIN df.rows |->
                    [i |-> r - 1, c |-> [k \in DOMAIN pos |-> df.rows[r].c[pos[k]]]]]]

\* ------------------------------------------------------------------ uploads
\* The data rows an upload is built from: Details, bug_type, Logical_Issue.
RowTemplates ==
    { [Details |-> S("null pointer crash"), bug_type |-> S("Server"), Logical_Issue |-> S("yes")],
      [Details |-> S("button misaligned"), bug_type |-> S("UI"), Logical_Issue |-> S("no")],
      [Details |-> S("timeout on save"), bug_type |-> NaN, Logical_Issue |-> S("Yes")],
      [Details |-> NaN, bug_type |-> S("UI"), Logical_Issue |-> S("yes")] }

\* The header rows of the uploads, as written in the file.
Headers ==
    { <<"Details", "bug_type", "Logical_Issue">>,
      <<"S.No ", " Details ", "bug_type ", " Logical_Issue">>,
      <<"Bug ID", "Details", "bug_type", "Logical_Issue">>,
      <<"S.No", "Bug ID", "Details", "bug_type", "Logical_Issue">>,
      <<"Details", "Logical_Issue">>,
      <<"Details", "bug_type">>,
      <<"Summary", "bug_type", "Logical_Issue">>,
      <<"S.No">> }

\* The cell of data row k (1-based) under the header label key.
CellFor(key, tmpl, k) ==
    CASE key = "Details" -> tmpl.Details
      [] key = "bug_type" -> tmpl.bug_type
      [] key = "Logical_Issue" -> tmpl.Logical_Issue
      [] key = "S.No" -> I(k)
      [] key = "Bug ID" -> I(100 + 10 * k)
      [] OTHER -> S("s")

\* Two rows above the real header: a title row and a blank row.
BannerRows(w) ==
    << [i \in 1..w |-> IF i = 1 THEN S("Bug Report") ELSE NaN],
       [i \in 1..w |-> NaN] >>

Grid(banner, header, tmpls) ==
    (IF banner THEN BannerRows(Len(header)) ELSE << >>)
    \o << [i \in DOMAIN header |-> S(header[i])] >>
    \o [k \in DOMAIN tmpls |->
          [i \in DOMAIN header |-> CellFor(strip(header[i]), tmpls[k], k)]]

RowSeqs == UNION {[1..n -> RowTemplates] : n \in 0..MaxRows}

\* The headers that also occur in .csv uploads, and below a banner.
CsvHeaders ==
    { <<"Details", "bug_type", "Logical_Issue">>,
      <<"S.No ", " Details ", "bug_type ", " Logical_Issue">>,
      <<"Summary", "bug_type", "Logical_Issue">> }

BannerHeaders ==
    { <<"Details", "bug_type", "Logical_Issue">>,
      <<"Summary", "bug_type", "Logical_Issue">> }

\* What st.file_uploader(type=["csv", "xlsx"]) can hand to the script: the
\* declared extension, whether the bytes parse at all, and the cell grid.
UploadedFiles ==
    {[ext |-> "xlsx", wellformed |-> TRUE, grid |-> Grid(FALSE, h, ts)] :
        h \in Headers, ts \in RowSeqs}
    \cup {[ext |-> "csv", wellformed |-> TRUE, grid |-> Grid(FALSE, h, ts)] :
            h \in CsvHeaders, ts \in RowSeqs}
    \cup {[ext |-> e, wellformed |-> TRUE, grid |-> Grid(TRUE, h, ts)] :
            e \in {"csv", "xlsx"}, h \in BannerHeaders, ts \in RowSeqs}
    \cup {[ext |-> e, wellformed |-> w, grid |-> << >>] :
            e \in {"csv", "xlsx"}, w \in BOOLEAN}

\* ------------------------------------------------------------------ loader
Ok(d) == [ok |-> TRUE, df |-> d, exc |-> ""]
Raise(e) == [ok |-> FALSE, df |-> EmptyFrame, exc |-> e]

\* The labels pandas makes of a header row: an empty cell is "Unnamed: i";
\* read_csv labels are always text, read_excel keeps the cell's type.
HeaderLabels(row, fromCsv) ==
    [i \in DOMAIN row |->
        IF IsNull(row[i]) THEN S("Unnamed: " \o ToString(i - 1))
        ELSE IF fromCsv THEN S(StrOf(row[i]))
        ELSE row[i]]

\* The table of a grid whose first skiprows rows are skipped: the next row
\* is the header, the rest are data rows indexed from 0.
Frame(grid, skiprows, fromCsv) ==
    IF Len(grid) <= skiprows THEN EmptyFrame
    ELSE [columns |-> HeaderLabels(grid[skiprows + 1], fromCsv),
          rows |-> [k \in 1..(Len(grid) - skiprows - 1) |->
                      [i |-> k - 1, c |-> grid[skiprows + 1 + k]]]]

\* pd.read_csv(uploaded_file)
read_csv(file) ==
    IF ~file.wellformed THEN Raise("Error tokenizing data")
    ELSE IF Len(file.grid) = 0 THEN Raise("No columns to parse from file")
    ELSE Ok(Frame(file.grid, 0, TRUE))

\* pd.read_excel(uploaded_file, skiprows=skiprows, engine="openpyxl"):
\* openpyxl opens the bytes as a zip archive, which a .csv upload is not.
read_excel(file, skiprows) ==
    IF file.ext = "csv" \/ ~file.wellformed THEN Raise("File is not a zip file")
    ELSE Ok(Frame(file.grid, skiprows, FALSE))

\* df.columns = df.columns.str.strip().  The .str accessor refuses an index
\* of integers; in an index of mixed labels a non-string becomes NaN.  The
\* columns of an empty DataFrame() are an integer RangeIndex in pandas 2 and
\* an object Index in pandas 1, so with no columns both outcomes are possible.
StripColumns(df) ==
    LET stripped ==
            [df EXCEPT !.columns =
                [i \in DOMAIN df.columns |->
                    IF df.columns[i].t = "str" THEN S(strip(df.columns[i].s)) ELSE NaN]]
        refused == Raise("Can only use .str accessor with string values!")
    IN IF Len(df.columns) = 0 THEN {Ok(stripped), refused}
       ELSE IF \A i \in DOMAIN df.columns : df.columns[i].t = "int" THEN {refused}
       ELSE {Ok(stripped)}

\* ------------------------------------------------------------------ classifier
\* The pickled artifacts are opaque.  A model is known by the dtype of the
\* classes it predicts and the first of its class codes; the vectorizer turns
\* a text into a feature (here the index of the text among the known texts).
\* Class codes are whole numbers, of integer or of float dtype: a classifier
\* with predict_proba is fitted on discrete targets.
Models ==
    { [dtype |-> "int", base |-> 0],
      [dtype |-> "int", base |-> 3],
      [dtype |-> "float", base |-> 3],
      [dtype |-> "str", base |-> 0] }

NoModel == [dtype |-> "none", base |-> 0]
NoArtifacts == [model |-> NoModel, vectorizer |-> "none"]

\* vectorizer.transform(texts)
transform(texts) ==
    [i \in DOMAIN texts |->
        CASE texts[i] = S("null pointer crash") -> 0
          [] texts[i] = S("button misaligned") -> 1
          [] OTHER -> 2]

StrLabels == <<"UI", "Crash", "Server">>

\* model.predict(X): the codes base, base+1, base+2 as integers or as floats
\* (3.0, 4.0, 5.0), or string labels.
predict(model, X) ==
    [i \in DOMAIN X |->
        CASE model.dtype = "int" -> I(model.base + X[i])
          [] model.dtype = "float" -> F(100 * (model.base + X[i]))
          [] OTHER -> S(StrLabels[X[i] + 1])]

\* model.predict_proba(X).max(axis=1), in thousandths.
predict_proba_max(model, X) == [i \in DOMAIN X |-> 874 - 131 * X[i]]

\* pd.api.types.is_numeric_dtype(preds)
is_numeric_dtype(model) == model.dtype \in {"int", "float"}

\* A category map without the entry for 4.
category_map_without_4(k, default) ==
    CASE k = 0 -> "UI"
      [] k = 1 -> "API"
      [] k = 2 -> "DB"
      [] k = 3 -> "Server"
      [] OTHER -> default

\* category_map.get(k, default)
category_map(k, default) ==
    CASE k = 0 -> "UI"
      [] k = 1 -> "API"
      [] k = 2 -> "DB"
      [] k = 3 -> "Server"
      [] k = 4 -> "Other"
      [] OTHER -> default

\* [category_map.get(int(p), str(p)) for p in preds], or preds as they are.
PredictedCategory(model, preds) ==
    IF is_numeric_dtype(model)
    THEN [i \in DOMAIN preds |-> S(category_map(IntOf(preds[i]), StrOf(preds[i])))]
    ELSE preds

\* round(p, 2) of a probability in thousandths, as a float in hundredths
\* (the probabilities above never end in 5, so no tie arises).
round2(p) == F((p + 5) \div 10)

\* ------------------------------------------------------------------ state
VARIABLES
    pc,             \* the statement the script is at
    uploaded_file,  \* the file of the current request
    df,             \* the table
    parsed,         \* history: df as the loader left it (line 35)
    exc,            \* the exception in flight
    out,            \* what the page shows, in order
    steps,          \* history: the stages the request ran, in order
    artifacts,      \* model, vectorizer of the request (line 50)
    cache_hit,      \* history: line 50 was served from the cache
    preds,
    probs,
    bug_counts,
    logic_counts,
    table,          \* the frame handed to st.dataframe
    cache,          \* st.cache_resource entry of load_model, process-wide
    loads,          \* history: runs of load_model's body
    failedBefore    \* history: an earlier request ended in an error

vars == <<pc, uploaded_file, df, parsed, exc, out, steps, artifacts, cache_hit, preds, probs,
          bug_counts, logic_counts, table, cache, loads, failedBefore>>

locals == <<df, parsed, artifacts, cache_hit, preds, probs, bug_counts, logic_counts, table>>
process == <<cache, loads, failedBefore>>

NoFile == [ext |-> "", wellformed |-> TRUE, grid |-> << >>]
Element(kind, text) == [kind |-> kind, text |-> text]
MissingDetails == "The uploaded file must contain a 'Details' column."
HasError == \E i \in DOMAIN out : out[i].kind = "error"

Init ==
    /\ pc = "idle"
    /\ uploaded_file = NoFile
    /\ df = EmptyFrame
    /\ parsed = EmptyFrame
    /\ exc = ""
    /\ out = << >>
    /\ steps = << >>
    /\ artifacts = NoArtifacts
    /\ cache_hit = FALSE
    /\ preds = << >>
    /\ probs = << >>
    /\ bug_counts = << >>
    /\ logic_counts = << >>
    /\ table = EmptyFrame
    /\ cache = NoArtifacts
    /\ loads = 0
    /\ failedBefore = FALSE

\* The statement at stage raised e: control goes to the except clause.
Raised(stage, e) ==
    /\ pc' = "except"
    /\ exc' = e
    /\ steps' = Append(steps, stage)

\* The statement at stage completed; next is the statement at to.
Ran(stage, to) ==
    /\ pc' = to
    /\ exc' = exc
    /\ steps' = Append(steps, stage)

\* The locals of a run that has not reached its first statement, and an
\* empty page.
Fresh ==
    /\ df' = EmptyFrame
    /\ parsed' = EmptyFrame
    /\ exc' = ""
    /\ out' = << >>
    /\ steps' = << >>
    /\ artifacts' = NoArtifacts
    /\ cache_hit' = FALSE
    /\ preds' = << >>
    /\ probs' = << >>
    /\ bug_counts' = << >>
    /\ logic_counts' = << >>
    /\ table' = EmptyFrame

\* Lines 18-20: the user uploads a file and the script reruns from the top.
Upload(f) ==
    /\ pc = "idle"
    /\ loads < MaxLoads
    /\ uploaded_file' = f
    /\ pc' = "read"
    /\ Fresh
    /\ UNCHANGED process

\* Lines 18-20: the user removes the file; the script reruns, finds no file
\* and leaves an empty page.  Nothing of the request survives but the cache.
Clear ==
    /\ pc = "done"
    /\ uploaded_file' = NoFile
    /\ pc' = "idle"
    /\ Fresh
    /\ failedBefore' = (failedBefore \/ HasError)
    /\ UNCHANGED <<cache, loads>>

\* Lines 23-28: parse by declared extension, then trim the column labels.
ReadFile ==
    /\ pc = "read"
    /\ LET r == IF uploaded_file.ext = "csv" THEN read_csv(uploaded_file)
                ELSE read_excel(uploaded_file, 0)
       IN IF ~r.ok
          THEN Raised("read", r.exc) /\ UNCHANGED df
          ELSE \E s \in StripColumns(r.df) :
                  IF s.ok THEN Ran("read", "retry") /\ df' = s.df
                  ELSE Raised("read", s.exc) /\ UNCHANGED df
    /\ UNCHANGED <<uploaded_file, parsed, out, artifacts, cache_hit, preds, probs,
                   bug_counts, logic_counts, table, process>>

\* Lines 31-33: without a Details column, parse again as a spreadsheet
\* skipping two rows, and trim again.
RetryRead ==
    /\ pc = "retry"
    /\ IF HasCol(df, "Details")
       THEN pc' = "check" /\ UNCHANGED <<df, exc, steps>>
       ELSE LET r == read_excel(uploaded_file, 2)
            IN IF ~r.ok
               THEN Raised("retry", r.exc) /\ UNCHANGED df
               ELSE \E s \in StripColumns(r.df) :
                       IF s.ok THEN Ran("retry", "check") /\ df' = s.df
                       ELSE Raised("retry", s.exc) /\ UNCHANGED df
    /\ UNCHANGED <<uploaded_file, parsed, out, artifacts, cache_hit, preds, probs,
                   bug_counts, logic_counts, table, process>>

\* Lines 35-38: show the columns; without Details show the explicit error
\* and end the request.
CheckDetails ==
    /\ pc = "check"
    /\ parsed' = df
    /\ IF HasCol(df, "Details")
       THEN /\ out' = Append(out, Element("write", "columns"))
            /\ pc' = "normalize"
       ELSE /\ out' = out \o <<Element("write", "columns"), Element("error", MissingDetails)>>
            /\ pc' = "done"
    /\ UNCHANGED <<uploaded_file, df, exc, steps, artifacts, cache_hit, preds, probs,
                   bug_counts, logic_counts, table, process>>

\* Bug ID derivation that numbers from 0: range(len(df)).
DeriveBugIdFromZero(d) ==
    IF HasCol(d, "S.No") THEN Rename(d, "S.No", "Bug ID")
    ELSE IF ~HasCol(d, "Bug ID")
         THEN SetColumn(d, "Bug ID", [k \in 1..Len(d.rows) |-> I(k - 1)])
         ELSE d

\* Lines 44-47 on a frame: S.No becomes Bug ID; else a missing Bug ID is
\* range(1, len(df) + 1).
DeriveBugId(d) ==
    IF HasCol(d, "S.No") THEN Rename(d, "S.No", "Bug ID")
    ELSE IF ~HasCol(d, "Bug ID")
         THEN SetColumn(d, "Bug ID", [k \in 1..Len(d.rows) |-> I(k)])
         ELSE d

\* Lines 40-47 on a frame that has Details.
NormalizeFrame(d) ==
    LET kept == dropna(d, "Details")
        text == SetColumn(kept, "Details",
                          [k \in DOMAIN kept.rows |-> S(StrOf(Column(kept, "Details")[k]))])
    IN DeriveBugId(text)

Normalize ==
    /\ pc = "normalize"
    /\ df' = NormalizeFrame(df)
    /\ Ran("normalize", "load")
    /\ UNCHANGED <<uploaded_file, parsed, out, artifacts, cache_hit, preds, probs,
                   bug_counts, logic_counts, table, process>>

\* load_model() without the cache: the body runs in every request.
LoadModelUncached ==
    /\ pc = "load"
    /\ loads' = loads + 1
    /\ cache_hit' = FALSE
    /\ \E m \in Models \cup {NoModel}, v \in {"vectorizer.pkl", "none"} :
         IF m = NoModel \/ v = "none"
         THEN Raised("load", "No such file or directory") /\ UNCHANGED <<cache, artifacts>>
         ELSE /\ cache' = [model |-> m, vectorizer |-> v]
              /\ artifacts' = cache'
              /\ Ran("load", "classify")
    /\ UNCHANGED <<uploaded_file, df, parsed, out, preds, probs,
                   bug_counts, logic_counts, table, failedBefore>>

\* Lines 8-12 and 50: load_model() behind st.cache_resource.  A cached pair
\* is returned as it is; otherwise the body runs, either joblib.load may
\* raise (nothing is cached then), and a pair that loaded is cached.
LoadModel ==
    /\ pc = "load"
    /\ IF cache # NoArtifacts
       THEN /\ artifacts' = cache
            /\ cache_hit' = TRUE
            /\ Ran("load", "classify")
            /\ UNCHANGED <<cache, loads>>
       ELSE /\ loads' = loads + 1
            /\ cache_hit' = FALSE
            /\ \E m \in Models \cup {NoModel}, v \in {"vectorizer.pkl", "none"} :
                 IF m = NoModel
                 THEN Raised("load", "No such file or directory: 'model.pkl'")
                      /\ UNCHANGED <<cache, artifacts>>
                 ELSE IF v = "none"
                 THEN Raised("load", "No such file or directory: 'vectorizer.pkl'")
                      /\ UNCHANGED <<cache, artifacts>>
                 ELSE /\ cache' = [model |-> m, vectorizer |-> v]
                      /\ artifacts' = cache'
                      /\ Ran("load", "classify")
    /\ UNCHANGED <<uploaded_file, df, parsed, out, preds, probs,
                   bug_counts, logic_counts, table, failedBefore>>

\* Lines 51-53: vectorize Details, predict, take the top probability.  The
\* artifacts are opaque and any of the three calls may raise.
Classify ==
    /\ pc = "classify"
    /\ \E ok \in BOOLEAN :
         IF ok
         THEN LET X == transform(Column(df, "Details"))
              IN /\ preds' = predict(artifacts.model, X)
                 /\ probs' = predict_proba_max(artifacts.model, X)
                 /\ Ran("classify", "compose")
         ELSE Raised("classify", "classifier raised") /\ UNCHANGED <<preds, probs>>
    /\ UNCHANGED <<uploaded_file, df, parsed, out, artifacts, cache_hit,
                   bug_counts, logic_counts, table, process>>

\* Lines 55-68 on a frame.
ComposeFrame(d, model, ps, qs) ==
    LET d1 == SetColumn(d, "Predicted Category", PredictedCategory(model, ps))
        d2 == SetColumn(d1, "Confidence Score", [i \in DOMAIN qs |-> round2(qs[i])])
    IN IF HasCol(d2, "Logical_Issue")
       THEN SetColumn(d2, "Logic-level Issue", Column(d2, "Logical_Issue"))
       ELSE SetColumn(d2, "Logic-level Issue", [i \in DOMAIN d2.rows |-> S("N/A")])

Compose ==
    /\ pc = "compose"
    /\ df' = ComposeFrame(df, artifacts.model, preds, probs)
    /\ Ran("compose", "pie")
    /\ UNCHANGED <<uploaded_file, parsed, out, artifacts, cache_hit, preds, probs,
                   bug_counts, logic_counts, table, process>>

\* The pie aggregate taken over Predicted Category.
BugCountsOfPredicted(d) == value_counts(Column(d, "Predicted Category"))

\* Line 72.
BugCounts(d) == value_counts(Column(d, "bug_type"))

\* A pie stage that skips the chart when bug_type is missing.
PieSkipsMissing ==
    /\ pc = "pie"
    /\ IF HasCol(df, "bug_type")
       THEN /\ bug_counts' = BugCounts(df)
            /\ out' = out \o <<Element("markdown", "Pie Chart"), Element("pie", "bug_counts")>>
       ELSE /\ out' = Append(out, Element("markdown", "Pie Chart"))
            /\ UNCHANGED bug_counts
    /\ Ran("pie", "bar")
    /\ UNCHANGED <<uploaded_file, df, parsed, artifacts, cache_hit, preds, probs,
                   logic_counts, table, process>>

\* Lines 71-90: the pie chart of df['bug_type'].value_counts().
Pie ==
    /\ pc = "pie"
    /\ IF HasCol(df, "bug_type")
       THEN /\ bug_counts' = BugCounts(df)
            /\ out' = out \o <<Element("markdown", "Pie Chart"), Element("pie", "bug_counts")>>
            /\ Ran("pie", "bar")
       ELSE /\ out' = Append(out, Element("markdown", "Pie Chart"))
            /\ Raised("pie", "'bug_type'")
            /\ UNCHANGED bug_counts
    /\ UNCHANGED <<uploaded_file, df, parsed, artifacts, cache_hit, preds, probs,
                   logic_counts, table, process>>

\* Lines 94-95: bug_type counts of the rows whose Logical_Issue, as text in
\* lower case, is "yes".
LogicCounts(d) ==
    LET logic_bugs ==
            [d EXCEPT !.rows =
                SelectSeq(d.rows, LAMBDA r :
                    lower(StrOf(r.c[ColPos(d, "Logical_Issue")])) = "yes")]
    IN value_counts(Column(logic_bugs, "bug_type"))

\* A bar stage that skips the chart when Logical_Issue is missing.
BarSkipsMissing ==
    /\ pc = "bar"
    /\ IF HasCol(df, "Logical_Issue")
       THEN /\ logic_counts' = LogicCounts(df)
            /\ out' = out \o <<Element("markdown", "Bar Chart"), Element("bar", "logic_counts")>>
       ELSE /\ out' = Append(out, Element("markdown", "Bar Chart"))
            /\ UNCHANGED logic_counts
    /\ Ran("bar", "table")
    /\ UNCHANGED <<uploaded_file, df, parsed, artifacts, cache_hit, preds, probs,
                   bug_counts, table, process>>

\* Lines 93-96: the bar chart.  Line 94 needs Logical_Issue, line 95 bug_type.
Bar ==
    /\ pc = "bar"
    /\ IF HasCol(df, "Logical_Issue") /\ HasCol(df, "bug_type")
       THEN /\ logic_counts' = LogicCounts(df)
            /\ out' = out \o <<Element("markdown", "Bar Chart"), Element("bar", "logic_counts")>>
            /\ Ran("bar", "table")
       ELSE /\ out' = Append(out, Element("markdown", "Bar Chart"))
            /\ Raised("bar", IF HasCol(df, "Logical_Issue") THEN "'bug_type'"
                             ELSE "'Logical_Issue'")
            /\ UNCHANGED logic_counts
    /\ UNCHANGED <<uploaded_file, df, parsed, artifacts, cache_hit, preds, probs,
                   bug_counts, table, process>>

table_cols == <<"Bug ID", "Details", "Predicted Category", "Logic-level Issue", "Confidence Score">>

\* Lines 99-101: the result table.  Two columns labelled Bug ID (S.No renamed
\* beside an existing Bug ID) are both selected; st.dataframe accepts or
\* refuses duplicate labels depending on the Streamlit release.
TableOut ==
    /\ pc = "table"
    /\ LET shown == Select(df, table_cols)
       IN \E ok \in {TRUE, Len(shown.columns) = Len(table_cols)} :
            IF ok
            THEN /\ table' = shown
                 /\ out' = out \o <<Element("subheader", "Table"), Element("table", "table")>>
                 /\ Ran("table", "done")
            ELSE /\ out' = Append(out, Element("subheader", "Table"))
                 /\ Raised("table", "Duplicate column names found")
                 /\ UNCHANGED table
    /\ UNCHANGED <<uploaded_file, df, parsed, artifacts, cache_hit, preds, probs,
                   bug_counts, logic_counts, process>>

\* An except clause that swallows the exception: except Exception: pass.
ExceptSwallows ==
    /\ pc = "except"
    /\ pc' = "done"
    /\ UNCHANGED <<uploaded_file, exc, out, steps, locals, process>>

\* Lines 103-104: the except clause shows the exception and the run ends.
Except ==
    /\ pc = "except"
    /\ out' = Append(out, Element("error", "Error: " \o exc))
    /\ pc' = "done"
    /\ UNCHANGED <<uploaded_file, exc, steps, locals, process>>

Next ==
    \/ \E f \in UploadedFiles : Upload(f)
    \/ Clear
    \/ ReadFile
    \/ RetryRead
    \/ CheckDetails
    \/ Normalize
    \/ LoadModel
    \/ Classify
    \/ Compose
    \/ Pie
    \/ Bar
    \/ TableOut
    \/ Except

Spec == Init /\ [][Next]_vars

\* ------------------------------------------------------------------ claims
Done == pc = "done"
Shown(kind) == \E i \in DOMAIN out : out[i].kind = kind
ErrorsShown == {i \in DOMAIN out : out[i].kind = "error"}
RanStage(stage) == \E i \in DOMAIN steps : steps[i] = stage

\* What the uploaded file holds, read off its cell grid: a Details label
\* (up to surrounding blanks) in its first row, or in its third row.
LabelIn(row, name) == \E i \in DOMAIN row : row[i].t = "str" /\ strip(row[i].s) = name
DetailsInRow1 == Len(uploaded_file.grid) >= 1 /\ LabelIn(uploaded_file.grid[1], "Details")
DetailsInRow3 == Len(uploaded_file.grid) >= 3 /\ LabelIn(uploaded_file.grid[3], "Details")
\* The file parses and its row is a header row: text labels or blanks.
TextLabels(row) == \A i \in DOMAIN row : row[i].t \in {"str", "nan"}
IsTable ==
    /\ uploaded_file.wellformed
    /\ Len(uploaded_file.grid) >= 1
    /\ TextLabels(uploaded_file.grid[1])
IsTableBelowTwoRows ==
    /\ Len(uploaded_file.grid) >= 3
    /\ TextLabels(uploaded_file.grid[3])

\* The rows of the loaded table, by position, and those with a Details value.
ParsedCell(r, name) == parsed.rows[r].c[ColPos(parsed, name)]
Survivors == {r \in DOMAIN parsed.rows : ~IsNull(ParsedCell(r, "Details"))}
\* The loaded row that row k of df came from (index labels start at 0).
Origin(k) == df.rows[k].i + 1

CountOf(counts, v) == IF v \in DOMAIN counts THEN counts[v] ELSE 0

RECURSIVE Total(_)
Total(counts) ==
    IF DOMAIN counts = {} THEN 0
    ELSE LET v == CHOOSE x \in DOMAIN counts : TRUE
         IN counts[v] + Total([x \in DOMAIN counts \ {v} |-> counts[x]])

\* C1: a file, csv or xlsx, whose table has no Details label in its header
\* row, neither parsed directly (row 1) nor parsed skipping two rows (row 3),
\* ends with the explicit missing-Details error and nothing else: no generic
\* error, no prediction, no chart, no table.
C1_MissingDetailsReported ==
    (Done /\ IsTable /\ IsTableBelowTwoRows /\ ~DetailsInRow1 /\ ~DetailsInRow3) =>
        /\ \A i \in ErrorsShown : out[i].text = MissingDetails
        /\ ErrorsShown # {}
        /\ ~RanStage("classify")
        /\ ~Shown("pie") /\ ~Shown("bar") /\ ~Shown("table")

\* C2: a file, csv or xlsx, whose Details header is on row 3 is parsed again
\* skipping two rows, Details is found and the request goes on to the
\* classification stage.
C2_RetryFindsDetails ==
    (Done /\ IsTable /\ ~DetailsInRow1 /\ DetailsInRow3) =>
        /\ RanStage("retry")
        /\ HasCol(parsed, "Details")
        /\ RanStage("load")

\* C3: the rendered table has one row per loaded row with a Details value
\* (loaded rows minus null-Details rows), in input order, and only those
\* rows were classified and counted.
C3_OneRowPerSurvivor ==
    Shown("table") =>
        /\ Len(table.rows) =
              Len(parsed.rows)
              - Cardinality({r \in DOMAIN parsed.rows : IsNull(ParsedCell(r, "Details"))})
        /\ Len(df.rows) = Len(table.rows)
        /\ \A j, k \in DOMAIN df.rows : j < k => Origin(j) < Origin(k)
        /\ \A k \in DOMAIN df.rows :
              /\ Origin(k) \in Survivors
              /\ Column(table, "Details")[k] = S(StrOf(ParsedCell(Origin(k), "Details")))
        /\ Len(preds) = Len(table.rows)
        /\ Total(bug_counts) =
              Cardinality({r \in Survivors : ~IsNull(ParsedCell(r, "bug_type"))})

C3_Witness ==
    /\ Shown("table")
    /\ Len(table.rows) = 1
    /\ Len(parsed.rows) = 2
    /\ IsNull(ParsedCell(1, "Details"))

\* C4: after the null-Details filter, S.No becomes Bug ID; with neither S.No
\* nor Bug ID the k-th surviving row gets Bug ID k (1..N, N >= 0, no gaps); an
\* existing Bug ID column keeps its values; and normalizing the normalized
\* table again changes nothing.
C4_BugIdDerivation ==
    pc = "load" =>
        /\ HasCol(parsed, "S.No") =>
              /\ ~HasCol(df, "S.No")
              /\ df.columns[ColPos(parsed, "S.No")] = S("Bug ID")
              /\ \A k \in DOMAIN df.rows :
                    df.rows[k].c[ColPos(parsed, "S.No")] = ParsedCell(Origin(k), "S.No")
        /\ (~HasCol(parsed, "S.No") /\ ~HasCol(parsed, "Bug ID")) =>
              /\ HasCol(df, "Bug ID")
              /\ Len(Column(df, "Bug ID")) = Cardinality(Survivors)
              /\ \A k \in DOMAIN df.rows : Column(df, "Bug ID")[k] = I(k)
        /\ HasCol(parsed, "Bug ID") =>
              /\ df.columns[ColPos(parsed, "Bug ID")] = S("Bug ID")
              /\ \A k \in DOMAIN df.rows :
                    df.rows[k].c[ColPos(parsed, "Bug ID")] = ParsedCell(Origin(k), "Bug ID")
        /\ NormalizeFrame(df) = df

C4_Witness ==
    /\ pc = "load"
    /\ ~HasCol(parsed, "S.No") /\ ~HasCol(parsed, "Bug ID")
    /\ Len(parsed.rows) = 2
    /\ Len(df.rows) = 1
    /\ Origin(1) = 2
    /\ Column(df, "Bug ID")[1] = I(1)

C6_MissingAggregateColumn ==
    (Done /\ HasCol(parsed, "Details")
          /\ (~HasCol(parsed, "bug_type") \/ ~HasCol(parsed, "Logical_Issue"))) =>
        /\ Cardinality(ErrorsShown) = 1
        /\ out[Len(out)].kind = "error"
        /\ ~Shown("table")
        /\ RanStage("compose") =>
              IF ~HasCol(parsed, "bug_type")
              THEN exc = "'bug_type'" /\ steps[Len(steps)] = "pie" /\ ~Shown("pie")
              ELSE exc = "'Logical_Issue'" /\ steps[Len(steps)] = "bar" /\ ~Shown("bar")

C6_Witness ==
    /\ Done
    /\ HasCol(parsed, "bug_type") /\ ~HasCol(parsed, "Logical_Issue")
    /\ Shown("pie")
    /\ out[Len(out)] = Element("error", "Error: 'Logical_Issue'")

ClaimedLabels == <<"UI", "API", "DB", "Server", "Other">>

\* C7: numeric codes 0..4 give UI, API, DB, Server, Other; any other numeric
\* code gives its own string form; string labels are kept as they are.
C7_LabelMapping ==
    RanStage("compose") =>
        /\ Len(Column(df, "Predicted Category")) = Len(preds)
        /\ \A k \in DOMAIN preds :
            LET p == preds[k]
                cat == Column(df, "Predicted Category")[k]
                code == IF p.t = "float" THEN p.n \div 100 ELSE p.n
            IN IF p.t = "str" THEN cat = p
               ELSE IF code \in 0..4 THEN cat = S(ClaimedLabels[code + 1])
               ELSE cat = S(StrOf(p))

C7_Witness ==
    /\ RanStage("compose")
    /\ \E k \in DOMAIN preds :
          preds[k] = F(500) /\ Column(df, "Predicted Category")[k] = S("5.0")
    /\ \E k \in DOMAIN preds :
          preds[k] = F(400) /\ Column(df, "Predicted Category")[k] = S("Other")

FullPage ==
    << Element("write", "columns"),
       Element("markdown", "Pie Chart"), Element("pie", "bug_counts"),
       Element("markdown", "Bar Chart"), Element("bar", "logic_counts"),
       Element("subheader", "Table"), Element("table", "table") >>

\* C9: a failure at any stage goes to the except clause and is shown as one
\* error message, the last thing on the page; no stage runs twice; and a
\* request that meets no failure shows the same page, built from its own file
\* only, whether or not earlier requests failed.
C9_FailuresCaughtOnce ==
    /\ exc # "" => pc \in {"except", "done"}
    /\ (Done /\ exc # "") =>
          /\ ErrorsShown = {Len(out)}
          /\ out[Len(out)].text = "Error: " \o exc
          /\ ~Shown("table")
    /\ \A i, j \in DOMAIN steps : i # j => steps[i] # steps[j]
    /\ (Done /\ exc = "") =>
          /\ out = IF HasCol(parsed, "Details") THEN FullPage
                   ELSE <<Element("write", "columns"), Element("error", MissingDetails)>>
          /\ \A r \in DOMAIN parsed.rows : parsed.rows[r].c \in Range(uploaded_file.grid)
          /\ HasCol(parsed, "Details") => Len(table.rows) = Cardinality(Survivors)

C9_Witness ==
    /\ Done
    /\ failedBefore
    /\ exc = ""
    /\ Shown("table")
    /\ Len(table.rows) >= 1

PosOf(kind) == CHOOSE i \in DOMAIN out : out[i].kind = kind

\* C10: the page gets the pie chart, then the bar chart, then the table, each
\* only after the one before; a rendered table implies bug_type and
\* Logical_Issue in the input and a Logic-level Issue column copied from
\* Logical_Issue; the "N/A" filled in for a missing Logical_Issue is never
\* rendered.
C10_ChartsBeforeTable ==
    /\ Shown("bar") => (Shown("pie") /\ PosOf("pie") < PosOf("bar"))
    /\ Shown("table") =>
          /\ Shown("bar") /\ PosOf("bar") < PosOf("table")
          /\ HasCol(parsed, "bug_type") /\ HasCol(parsed, "Logical_Issue")
          /\ \A k \in DOMAIN table.rows :
                /\ Column(table, "Logic-level Issue")[k] = ParsedCell(Origin(k), "Logical_Issue")
                /\ Column(table, "Logic-level Issue")[k] # S("N/A")
    /\ (RanStage("compose") /\ ~HasCol(parsed, "Logical_Issue")) =>
          /\ \A k \in DOMAIN df.rows : Column(df, "Logic-level Issue")[k] = S("N/A")
          /\ ~Shown("table")

C10_Witness ==
    /\ Shown("table")
    /\ Len(table.rows) = 2
    /\ PosOf("pie") < PosOf("bar")

====
